---- MODULE Spec2Model ----
(***************************************************************************)
(* Playback controllers of the two dashboards of dekanbro/damp-plains:     *)
(*   locodams/main.py  (dam projections, 4 elements, comet-trail redraw)   *)
(*   locoflow/main.py  (stream gages, 9 sites: map points, tapes, lines)   *)
(* Each dashboard is its own program; `dash` says which one is running.    *)
(* Opacities are floats in the source with one decimal; they are modelled  *)
(* in tenths (0.2 -> 2, 0.9 -> 9, 1. -> 10).                               *)
(***************************************************************************)
EXTENDS Integers, Sequences, FiniteSets, TLC

VARIABLES dash,       \* which main.py is running
          index,      \* global `index`
          label,      \* button.label
          callbacks,  \* number of periodic callbacks of `animate` registered with curdoc()
          slider,     \* slider.value
          ds,         \* the data sources' fill_alpha / xs / ys columns
          op,         \* the callback that ran last
          run         \* number of consecutive animate calls since index was 0, -1 after a scrub

vars == <<dash, index, label, callbacks, slider, ds, op, run>>

----------------------------------------------------------------------------
(* Sizes *)

\* locodams: every site of dset-7 has NObsDams rows (n[j] = d.shape[0]); the
\* value comes from the data file, the slider of the dashboard ends at 72.
NObsDams == 72

\* locodams: sites = ["mohave", "davis", "havasu", "parker"]
NSitesDams == 4

\* locodams: n = [d.shape[0] for d in dsets]
n_dams == [j \in 1..NSitesDams |-> NObsDams]

\* locoflow: n = 145
n == 145

\* locoflow: the 9 sites, north to south
NSitesFlow == 9

\* Slider(start = 0, end = 72) and Slider(start = 0, end = 144)
slider_start == 0
slider_end_dams == 72
slider_end_flow == 144

\* redraw2(k, lo = 0.3, hi = 0.9), in tenths
lo_dams == 3
hi_dams == 9

\* redraw_tapes(k, lo = 0.2, hi = 0.9), in tenths
lo_tapes == 2
hi_tapes == 9

\* redraw_points: alpha 1. for the current sample, in tenths
alpha_on == 10

----------------------------------------------------------------------------
(* Python list primitives.  A list is a sequence; Python position i is      *)
(* position i+1 of the sequence.                                            *)

\* a[i] = v, with Python's negative indices counted from the end
PySetItem(a, i, v) ==
    IF i >= 0 THEN [a EXCEPT ![i + 1] = v]
              ELSE [a EXCEPT ![Len(a) + i + 1] = v]

\* a[:k] for k >= 0
PySlice(a, k) == SubSeq(a, 1, IF k < Len(a) THEN k ELSE Len(a))

\* [0. for j in range(m)]
Zeros(m) == [i \in 1..m |-> 0]

----------------------------------------------------------------------------
(* The program state handled by the callbacks, as one record *)

State == [index |-> index, label |-> label, callbacks |-> callbacks,
          slider |-> slider, ds |-> ds]

----------------------------------------------------------------------------
(* locodams/main.py *)

\* mutant: the highlight is written at k instead of k-1
redraw2_alpha_shifted(j, k) ==
    PySetItem([i \in 1..n_dams[j] |-> IF i - 1 < k THEN lo_dams ELSE 0], k, hi_dams)

\* alpha = [lo if i < k else 0 for i in range(n[j])]; alpha[k-1] = hi
redraw2_alpha(j, k) ==
    PySetItem([i \in 1..n_dams[j] |-> IF i - 1 < k THEN lo_dams ELSE 0], k - 1, hi_dams)

\* def redraw2(k, lo = 0.3, hi = 0.9): the fill_alpha column of every data source
redraw2(k) == [fill_alpha |-> [j \in 1..NSitesDams |-> redraw2_alpha(j, k)]]

\* the else branch of animate: d.data["fill_alpha"] = [0. for k in range(n[j])]
clear_dams == [fill_alpha |-> [j \in 1..NSitesDams |-> Zeros(n_dams[j])]]

\* elements built with alpha = [0. for j in range(n[...])]; index = 0; label "Play";
\* Slider(value = 0); no periodic callback registered
init_dams == [index |-> 0, label |-> "Play", callbacks |-> 0, slider |-> 0,
              ds |-> [fill_alpha |-> <<Zeros(n_dams[1]), Zeros(n_dams[2]),
                                       Zeros(n_dams[1]), Zeros(n_dams[2])>>]]

\* mutant: the redraw runs on the index from before the scrub
slider_update_dams_stale(st) ==
    [st EXCEPT !.index = st.slider, !.ds = redraw2(st.index)]

\* def slider_update(attrname, old, new): index = slider.value; redraw2(index)
slider_update_dams(st) ==
    [st EXCEPT !.index = st.slider, !.ds = redraw2(st.slider)]

\* slider.value = v with slider.on_change("value", slider_update): the property
\* change runs the callback, synchronously, when the value differs from the old one
set_slider_dams(st, v) ==
    IF v = st.slider THEN st
    ELSE slider_update_dams([st EXCEPT !.slider = v])

\* mutant: the bound is tested with <= instead of <
animate_dams_offbyone(st) ==
    IF st.index <= n_dams[1]
    THEN LET i == st.index + 1
         IN  set_slider_dams([st EXCEPT !.index = i, !.ds = redraw2(i)], i)
    ELSE set_slider_dams([st EXCEPT !.ds = clear_dams, !.index = 0], 0)

\* mutant: playback stops itself when the end is reached
animate_dams_stops_at_end(st) ==
    IF st.index < n_dams[1]
    THEN LET i == st.index + 1
         IN  set_slider_dams([st EXCEPT !.index = i, !.ds = redraw2(i)], i)
    ELSE set_slider_dams([st EXCEPT !.ds = clear_dams, !.index = 0,
                                    !.label = "Play", !.callbacks = 0], 0)

\* mutant: the index wraps one frame early (index < n[0] - 1)
animate_dams_wraps_early(st) ==
    IF st.index < n_dams[1] - 1
    THEN LET i == st.index + 1
         IN  set_slider_dams([st EXCEPT !.index = i, !.ds = redraw2(i)], i)
    ELSE set_slider_dams([st EXCEPT !.ds = clear_dams, !.index = 0], 0)

\* def animate()
animate_dams(st) ==
    IF st.index < n_dams[1]
    THEN LET i == st.index + 1
         IN  set_slider_dams([st EXCEPT !.index = i, !.ds = redraw2(i)], i)
    ELSE set_slider_dams([st EXCEPT !.ds = clear_dams, !.index = 0], 0)

\* mutant: stopping restores the label and leaves the periodic callback registered
update_dams_keeps_timer(st) ==
    IF st.label = "Play"
    THEN [st EXCEPT !.label = "Pause", !.callbacks = @ + 1]
    ELSE [st EXCEPT !.label = "Play"]

\* animate's own statements, up to and including slider.value = index, before
\* the slider's change callback runs
animate_own_dams(st) ==
    IF st.index < n_dams[1]
    THEN LET i == st.index + 1
         IN  [st EXCEPT !.index = i, !.ds = redraw2(i), !.slider = i]
    ELSE [st EXCEPT !.ds = clear_dams, !.index = 0, !.slider = 0]

\* def update(fps = 15)
update_dams(st) ==
    IF st.label = "Play"
    THEN [st EXCEPT !.label = "Pause", !.callbacks = @ + 1]
    ELSE [st EXCEPT !.label = "Play", !.callbacks = IF @ > 0 THEN @ - 1 ELSE 0]

----------------------------------------------------------------------------
(* locoflow/main.py *)

\* xvals = [d.DateTime for d in height_dsets], yvals = [d.Value ...]: one series
\* of n samples per site, sorted by DateTime; a sample is named by its position
xvals == [j \in 1..NSitesFlow |-> [i \in 1..n |-> i - 1]]
yvals == [j \in 1..NSitesFlow |-> [i \in 1..n |-> i - 1]]

\* def redraw_points(k): alpha = [1. if i == k else 0. for i in range(n)]
redraw_points(k) ==
    LET alpha == [i \in 1..n |-> IF i - 1 = k THEN alpha_on ELSE 0]
    IN  [j \in 1..NSitesFlow |-> alpha]

\* def redraw_tapes(k, lo = 0.2, hi = 0.9):
\*   alpha = [lo if i < k else 0 for i in range(n)]; alpha[k-1] = hi if k > 0 else 0
redraw_tapes(k) ==
    LET alpha == PySetItem([i \in 1..n |-> IF i - 1 < k THEN lo_tapes ELSE 0],
                           k - 1, IF k > 0 THEN hi_tapes ELSE 0)
    IN  [j \in 1..NSitesFlow |-> alpha]

\* mutant: the slice keeps one sample more, x[:k+1]
redraw_lines_one_more(k) ==
    [xs |-> [j \in 1..NSitesFlow |-> PySlice(xvals[j], k + 1)],
     ys |-> [j \in 1..NSitesFlow |-> PySlice(yvals[j], k + 1)]]

\* def redraw_lines(k): xs = [x[:k] for x in xvals], ys = [y[:k] for y in yvals]
redraw_lines(k) ==
    [xs |-> [j \in 1..NSitesFlow |-> PySlice(xvals[j], k)],
     ys |-> [j \in 1..NSitesFlow |-> PySlice(yvals[j], k)]]

\* redraw_points(index); redraw_tapes(index); redraw_lines(index)
redraw_flow(k) ==
    [points |-> redraw_points(k), tapes |-> redraw_tapes(k), lines |-> redraw_lines(k)]

\* circles built with alpha = [0. for k in range(n)], multi_line with x[:1], y[:1];
\* index = 0; label "Play"; Slider(value = 0); no periodic callback registered
init_flow == [index |-> 0, label |-> "Play", callbacks |-> 0, slider |-> 0,
              ds |-> [points |-> [j \in 1..NSitesFlow |-> Zeros(n)],
                      tapes  |-> [j \in 1..NSitesFlow |-> Zeros(n)],
                      lines  |-> [xs |-> [j \in 1..NSitesFlow |-> PySlice(xvals[j], 1)],
                                  ys |-> [j \in 1..NSitesFlow |-> PySlice(yvals[j], 1)]]]]

\* mutant: a scrub pauses playback
slider_update_flow_pauses(st) ==
    [st EXCEPT !.index = st.slider, !.ds = redraw_flow(st.slider),
               !.label = "Play", !.callbacks = 0]

\* mutant: `global index` is missing, the callback assigns a local index
slider_update_flow_local_index(st) ==
    [st EXCEPT !.ds = redraw_flow(st.slider)]

\* def slider_update(attrname, old, new): index = slider.value; the three redraws
slider_update_flow(st) ==
    [st EXCEPT !.index = st.slider, !.ds = redraw_flow(st.slider)]

\* slider.value = v with slider.on_change("value", slider_update)
set_slider_flow(st, v) ==
    IF v = st.slider THEN st
    ELSE slider_update_flow([st EXCEPT !.slider = v])

\* mutant: the index wraps at the slider's end instead of at n
animate_flow_wraps_at_slider_end(st) ==
    IF st.index < slider_end_flow
    THEN LET i == st.index + 1
         IN  set_slider_flow([st EXCEPT !.index = i, !.ds = redraw_flow(i)], i)
    ELSE set_slider_flow([st EXCEPT !.index = 0], 0)

\* mutant: animate does not push the index to the slider
animate_flow_no_slider_push(st) ==
    IF st.index < n
    THEN LET i == st.index + 1
         IN  [st EXCEPT !.index = i, !.ds = redraw_flow(i)]
    ELSE [st EXCEPT !.index = 0]

\* def animate(): the else branch only resets index
animate_flow(st) ==
    IF st.index < n
    THEN LET i == st.index + 1
         IN  set_slider_flow([st EXCEPT !.index = i, !.ds = redraw_flow(i)], i)
    ELSE set_slider_flow([st EXCEPT !.index = 0], 0)

\* mutant: starting registers the callback and leaves the label at "Play"
update_flow_untracked(st) ==
    IF st.label = "Play"
    THEN [st EXCEPT !.callbacks = @ + 1]
    ELSE [st EXCEPT !.label = "Play", !.callbacks = IF @ > 0 THEN @ - 1 ELSE 0]

\* animate's own statements, up to and including slider.value = index, before
\* the slider's change callback runs
animate_own_flow(st) ==
    IF st.index < n
    THEN LET i == st.index + 1
         IN  [st EXCEPT !.index = i, !.ds = redraw_flow(i), !.slider = i]
    ELSE [st EXCEPT !.index = 0, !.slider = 0]

\* def update(fps = 12)
update_flow(st) ==
    IF st.label = "Play"
    THEN [st EXCEPT !.label = "Pause", !.callbacks = @ + 1]
    ELSE [st EXCEPT !.label = "Play", !.callbacks = IF @ > 0 THEN @ - 1 ELSE 0]

----------------------------------------------------------------------------
(* Actions: one per callback and dashboard *)

Apply(st, name) ==
    /\ index' = st.index
    /\ label' = st.label
    /\ callbacks' = st.callbacks
    /\ slider' = st.slider
    /\ ds' = st.ds
    /\ op' = name
    /\ dash' = dash

\* animate calls since the last state with index 0 (a scrub breaks the count)
CountTick == IF index = 0 THEN 1 ELSE IF run >= 0 THEN run + 1 ELSE -1

Init ==
    /\ dash \in {"locodams", "locoflow"}
    /\ LET st == IF dash = "locodams" THEN init_dams ELSE init_flow
       IN  /\ index = st.index
           /\ label = st.label
           /\ callbacks = st.callbacks
           /\ slider = st.slider
           /\ ds = st.ds
    /\ op = "init"
    /\ run = 0

\* the periodic callback fires: only a registered callback is ever called
AnimateDams ==
    /\ dash = "locodams"
    /\ callbacks > 0
    /\ Apply(animate_dams(State), "animate")
    /\ run' = CountTick

AnimateFlow ==
    /\ dash = "locoflow"
    /\ callbacks > 0
    /\ Apply(animate_flow(State), "animate")
    /\ run' = CountTick

\* the user moves the slider to another value k of its range
SliderUpdateDams ==
    /\ dash = "locodams"
    /\ \E k \in slider_start..slider_end_dams :
          /\ k # slider
          /\ Apply(set_slider_dams(State, k), "slider_update")
    /\ run' = -1

SliderUpdateFlow ==
    /\ dash = "locoflow"
    /\ \E k \in slider_start..slider_end_flow :
          /\ k # slider
          /\ Apply(set_slider_flow(State, k), "slider_update")
    /\ run' = -1

\* the user clicks the button
UpdateDams ==
    /\ dash = "locodams"
    /\ Apply(update_dams(State), "update")
    /\ run' = run

UpdateFlow ==
    /\ dash = "locoflow"
    /\ Apply(update_flow(State), "update")
    /\ run' = run

Next ==
    \/ AnimateDams
    \/ AnimateFlow
    \/ SliderUpdateDams
    \/ SliderUpdateFlow
    \/ UpdateDams
    \/ UpdateFlow

Spec == Init /\ [][Next]_vars

(* Playback left to itself.  The states in which the user's last operation   *)
(* (a click that started playback, or a scrub while playing) has just         *)
(* returned, followed by timer ticks only.                                    *)

\* the state of the running dashboard at construction
init_state == IF dash = "locodams" THEN init_dams ELSE init_flow

\* the frame drawn by the redraw functions of the running dashboard
redraw_state(k) == IF dash = "locodams" THEN redraw2(k) ELSE redraw_flow(k)

\* a state right after update or slider_update, with playback on
TickStart ==
    /\ label = "Pause"
    /\ callbacks = 1
    /\ slider = index
    /\ \/ /\ op = "update"
          /\ index = 0
          /\ run = 0
          /\ ds = init_state.ds
       \/ /\ op = "update"
          /\ index \in 0..(IF dash = "locodams" THEN n_dams[1] ELSE n)
          /\ \/ run = -1
             \/ index >= 1 /\ run = index
             \/ index = 0 /\ run = (IF dash = "locodams" THEN n_dams[1] ELSE n) + 1
          /\ ds = redraw_state(index)
       \/ /\ op = "slider_update"
          /\ index \in slider_start..(IF dash = "locodams" THEN slider_end_dams
                                                           ELSE slider_end_flow)
          /\ run = -1
          /\ ds = redraw_state(index)

TickInit ==
    /\ dash \in {"locodams", "locoflow"}
    /\ label = "Pause"
    /\ callbacks = 1
    /\ op \in {"update", "slider_update"}
    /\ index \in 0..(IF dash = "locodams" THEN n_dams[1] ELSE n)
    /\ slider = index
    /\ run \in {-1, 0, index, (IF dash = "locodams" THEN n_dams[1] ELSE n) + 1}
    /\ ds \in {init_state.ds, redraw_state(index)}
    /\ TickStart

\* only the periodic callback runs
TickNext == AnimateDams \/ AnimateFlow

\* add_periodic_callback(animate, 1000/fps): while the callback is registered
\* the document's event loop keeps calling it.  This is weak fairness of the
\* tick, WF_vars(TickNext), with ENABLED <<TickNext>>_vars written out as the
\* guard of the tick, callbacks > 0 (a tick always changes index).
TimerFair == []<>(callbacks = 0) \/ []<><<TickNext>>_vars

TickSpec == TickInit /\ [][TickNext]_vars /\ TimerFair

----------------------------------------------------------------------------
(* Vocabulary of the properties *)

\* N, the number of observations per site the controller plays over
NFrames == IF dash = "locodams" THEN n_dams[1] ELSE n

\* the declared end of the slider's range
SliderEnd == IF dash = "locodams" THEN slider_end_dams ELSE slider_end_flow

AllZero(arrays) ==
    \A j \in DOMAIN arrays : \A i \in DOMAIN arrays[j] : arrays[j][i] = 0

\* the opacity arrays drawn as a comet trail
CometArrays == IF dash = "locodams" THEN ds.fill_alpha ELSE ds.tapes

\* the cleared state: every opacity zero, every path empty
Cleared ==
    IF dash = "locodams"
    THEN AllZero(ds.fill_alpha)
    ELSE /\ AllZero(ds.points)
         /\ AllZero(ds.tapes)
         /\ \A j \in 1..NSitesFlow : ds.lines.xs[j] = <<>> /\ ds.lines.ys[j] = <<>>

\* every bound element drawn by its redraw function at frame k
DrawnAt(k) ==
    IF dash = "locodams" THEN ds = redraw2(k) ELSE ds = redraw_flow(k)

Stopped == label = "Play"
Playing == label = "Pause"

----------------------------------------------------------------------------
(* C1 *)

\* C1: in both dashboards 0 <= index <= N holds in every reachable state, and
\* a tick taken at index = N sets index to 0.
C1_IndexInRange ==
    /\ [](index >= 0 /\ index <= NFrames)
    /\ [][(op' = "animate" /\ index = NFrames) => index' = 0]_vars

\* a tick has wrapped the index after a full pass from 0
C1_Witness == op = "animate" /\ index = 0 /\ run = NFrames + 1

----------------------------------------------------------------------------
(* C2 *)

\* C2: the comet-trail redraw at k = 0, as invoked by setIndex(0), leaves every
\* element's opacity array all zero (no highlight through the index -1).
C2_ZeroFrameAllZero ==
    (op = "slider_update" /\ index = 0) => AllZero(CometArrays)

----------------------------------------------------------------------------
(* C3 *)

\* C3: once a tick taken at index = N has completed, index is 0 and every bound
\* element is cleared (all opacities zero, all line paths empty).
\* (animate leaves index = 0 only through its wraparound branch)
C3_WrapClears ==
    /\ (op = "animate" /\ run = NFrames + 1) => index = 0
    /\ (op = "animate" /\ index = 0) => Cleared

----------------------------------------------------------------------------
(* C4 *)

\* C4: every value a tick writes to the slider lies in the slider's declared
\* range [start, end].
C4_SliderInRange ==
    op = "animate" => (slider >= slider_start /\ slider <= SliderEnd)

----------------------------------------------------------------------------
(* C5 *)

\* C5: togglePlayback from Stopped starts playback and togglePlayback from
\* Playing returns to Stopped with no periodic callback registered (so two
\* calls from Stopped end Stopped with no timer); no tick fires while Stopped,
\* so that while Stopped the index changes only through setIndex.
C5_ToggleInverseNoResidualTick ==
    [][ /\ (op' = "update" /\ Stopped) => (Playing' /\ callbacks' = 1)
        /\ (op' = "update" /\ Playing) => (Stopped' /\ callbacks' = 0)
        /\ op' = "animate" => Playing
        /\ (Stopped /\ Stopped' /\ index' # index) => op' = "slider_update"
      ]_vars

\* playback was started, ticked, and has just been stopped by the second click
C5_Witness == op = "update" /\ Stopped /\ callbacks = 0 /\ run > 0

----------------------------------------------------------------------------
(* C6 *)

\* C6: at most one periodic tick callback is registered, and one is registered
\* exactly when the button label is "Pause".
C6_SingleTimer ==
    /\ callbacks \in {0, 1}
    /\ label \in {"Play", "Pause"}
    /\ (callbacks = 1) <=> (label = "Pause")

\* playback restarted by a later click, after ticks and a scrub
C6_Witness == op = "update" /\ Playing /\ callbacks = 1 /\ run = -1 /\ index > 1

----------------------------------------------------------------------------
(* C7 *)

\* C7: setIndex(k), in Stopped or Playing, leaves index = k (the value the
\* slider was moved to) and every bound element drawn by its redraw function
\* at k; with 72 samples and k = 36 every element has samples 0..34 at LOW,
\* sample 35 at HIGH and the samples from 36 on at 0.
C7_SetIndexRedraws ==
    op = "slider_update" =>
        /\ index = slider
        /\ DrawnAt(slider)
        /\ (dash = "locodams" /\ slider = 36) =>
              \A j \in 1..NSitesDams :
                 /\ Len(ds.fill_alpha[j]) = n_dams[j]
                 /\ \A i \in 1..35 : ds.fill_alpha[j][i] = lo_dams
                 /\ ds.fill_alpha[j][36] = hi_dams
                 /\ \A i \in 37..n_dams[j] : ds.fill_alpha[j][i] = 0

\* the slider was moved to 36 while playing
C7_Witness ==
    dash = "locodams" /\ op = "slider_update" /\ Playing /\ index = 36

----------------------------------------------------------------------------
(* C8 *)

\* C8: setIndex leaves the playback state unchanged: button label and the
\* registered periodic callbacks are the same after it as before it.
C8_SetIndexKeepsPlayback ==
    [][op' = "slider_update" => (label' = label /\ callbacks' = callbacks)]_vars

\* a scrub while playing: still playing, timer still registered
C8_Witness ==
    dash = "locoflow" /\ op = "slider_update" /\ Playing /\ callbacks = 1

----------------------------------------------------------------------------
(* C9 *)

\* C9: no tick changes the Playing/Stopped state; the wraparound tick leaves
\* playback Playing with its timer registered.
C9_TickKeepsPlayback ==
    [][op' = "animate" =>
          /\ label' = label
          /\ callbacks' = callbacks
          /\ Playing'
          /\ callbacks' = 1]_vars

\* the wraparound tick has run and playback is still on
C9_Witness == op = "animate" /\ index = 0 /\ Playing /\ callbacks = 1

----------------------------------------------------------------------------
(* C10 *)

----------------------------------------------------------------------------
(* C11 *)

\* the comet trail of frame k over an array a: HIGH at Python position k-1,
\* LOW at the positions 0..k-2, 0 at the positions k..Len(a)-1
CometTrail(a, k, low, high) ==
    /\ a[k] = high
    /\ \A i \in 1..(k - 1) : a[i] = low
    /\ \A i \in (k + 1)..Len(a) : a[i] = 0
    /\ Cardinality({i \in DOMAIN a : a[i] = high}) = 1
    /\ Cardinality({i \in DOMAIN a : a[i] = low}) = k - 1

\* C11: for every k with 1 <= k <= N-1 the comet-trail redraw (redraw2,
\* redraw_tapes) gives every element exactly one sample at HIGH, at position
\* k-1, exactly k-1 samples at LOW (positions 0..k-2) and 0 at k..N-1.
C11_CometTrail ==
    (op \in {"animate", "slider_update"} /\ index >= 1 /\ index <= NFrames - 1) =>
        \A j \in DOMAIN CometArrays :
            /\ Len(CometArrays[j]) = NFrames
            /\ IF dash = "locodams"
               THEN CometTrail(CometArrays[j], index, lo_dams, hi_dams)
               ELSE CometTrail(CometArrays[j], index, lo_tapes, hi_tapes)

\* a frame in the middle of the timeline has been drawn by a tick
C11_Witness == op = "animate" /\ index = 40 /\ run = 40

----------------------------------------------------------------------------
(* C12 *)

\* C12: in locoflow, for every frame index k that tick or setIndex produces
\* (0 <= k <= N), redraw_points(k) leaves exactly one sample of each map-marker
\* element visible: opacity 1 at position k, 0 at every other position.
C12_OnePointVisible ==
    (dash = "locoflow" /\ op \in {"animate", "slider_update"}) =>
        \A j \in 1..NSitesFlow :
            /\ Cardinality({i \in DOMAIN ds.points[j] : ds.points[j][i] # 0}) = 1
            /\ index + 1 \in DOMAIN ds.points[j]
            /\ ds.points[j][index + 1] = alpha_on

----------------------------------------------------------------------------
(* C13 *)

\* p is a prefix of q
IsPrefix(p, q) == Len(p) <= Len(q) /\ \A i \in 1..Len(p) : p[i] = q[i]

\* the path of site j is the first k samples of its full series
FirstSamples(j, k) ==
    /\ Len(ds.lines.xs[j]) = k
    /\ Len(ds.lines.ys[j]) = k
    /\ \A i \in 1..k : ds.lines.xs[j][i] = xvals[j][i] /\ ds.lines.ys[j][i] = yvals[j][i]

\* C13: in locoflow, for every 0 <= k <= N, redraw_lines(k) makes each site's
\* visible path the first k samples of its series (length k, empty at 0, full
\* at N), and the path at k is a prefix of the path at k + 1.
C13_CumulativePath ==
    /\ []((dash = "locoflow" /\ op \in {"animate", "slider_update"}) =>
            \A j \in 1..NSitesFlow :
                /\ FirstSamples(j, index)
                /\ index = 0 => ds.lines.xs[j] = <<>>
                /\ index = n => ds.lines.xs[j] = xvals[j])
    /\ [][(dash = "locoflow" /\ op \in {"animate", "slider_update"}
             /\ op' \in {"animate", "slider_update"} /\ index' = index + 1) =>
            \A j \in 1..NSitesFlow :
                /\ IsPrefix(ds.lines.xs[j], ds'.lines.xs[j])
                /\ IsPrefix(ds.lines.ys[j], ds'.lines.ys[j])]_vars

\* the full path has been drawn by the tick that reaches N
C13_Witness ==
    dash = "locoflow" /\ op = "animate" /\ index = n /\ Len(ds.lines.xs[1]) = n

----------------------------------------------------------------------------
(* C14 *)

\* C14: in every reachable state at rest between callbacks, the initial state
\* and the state after a wraparound tick included, every bound element's array
\* equals its redraw function evaluated at the current index.
C14_DrawnAtIndex == DrawnAt(index)

----------------------------------------------------------------------------
(* C15 *)

\* the redraw functions of the running dashboard at frame k
RedrawAt(k) == IF dash = "locodams" THEN redraw2(k) ELSE redraw_flow(k)

\* C15: a tick taken when index < N increases index by exactly 1 and leaves
\* every bound element's array equal to its redraw function at the new index,
\* the tick from N-1 to N included (there the whole trail is lit: HIGH on the
\* last sample, LOW on all the others).
C15_TickAdvancesAndRedraws ==
    [][(op' = "animate" /\ index < NFrames) =>
          /\ index' = index + 1
          /\ ds' = RedrawAt(index + 1)
          /\ index = NFrames - 1 =>
                IF dash = "locodams"
                THEN \A j \in 1..NSitesDams :
                        CometTrail(ds'.fill_alpha[j], NFrames, lo_dams, hi_dams)
                ELSE \A j \in 1..NSitesFlow :
                        CometTrail(ds'.tapes[j], NFrames, lo_tapes, hi_tapes)]_vars

\* the tick from N-1 to N has run in an unbroken pass
C15_Witness == op = "animate" /\ index = NFrames /\ run = NFrames

----------------------------------------------------------------------------
(* C16 *)

\* C16: if playback is Playing and from some point on neither togglePlayback
\* nor setIndex occurs (only ticks follow the user's last operation), then
\* under fair firing of the timer the index takes the value N and the value 0
\* infinitely often.
C16_LoopsForever == []<>(index = NFrames) /\ []<>(index = 0)

\* playback has run a whole pass and wrapped, and is still on
C16_Witness ==
    op = "animate" /\ Playing /\ callbacks = 1 /\ run = NFrames + 1 /\ slider = 0

----------------------------------------------------------------------------
(* C17 *)

\* C17: after every tick and after every setIndex has run to completion, the
\* slider's value equals the frame index.
C17_SliderShowsIndex ==
    op \in {"animate", "slider_update"} => slider = index

\* a tick has pushed a new index to the slider after a scrub
C17_Witness == op = "animate" /\ run = -1 /\ slider = index /\ index > 0

----------------------------------------------------------------------------
(* C18 *)

\* the state a tick would leave before, and after, the slider's change callback
TickOwn == IF dash = "locodams" THEN animate_own_dams(State) ELSE animate_own_flow(State)
TickDone == IF dash = "locodams" THEN animate_dams(State) ELSE animate_flow(State)

\* C18: the slider-change callback fired by the tick's own write to the slider
\* leaves index and every element array as the tick left them, at every
\* reachable index at which a tick can run.
C18_CallbackIsNoOp ==
    callbacks > 0 => (TickDone.index = TickOwn.index /\ TickDone.ds = TickOwn.ds)

----------------------------------------------------------------------------
(* C19 *)

\* C19: when setIndex(k) with k < N runs between two timer ticks while
\* Playing, the next tick sets index to k + 1 (k is the value the slider was
\* moved to): playback continues from the scrubbed position.
C19_TickContinuesFromScrub ==
    [][(op = "slider_update" /\ Playing /\ op' = "animate" /\ slider < NFrames) =>
          index' = slider + 1]_vars

\* ticks have followed a scrub while playing
C19_Witness ==
    dash = "locoflow" /\ op = "animate" /\ Playing /\ run = -1 /\ index = 101

====
